---- MODULE Spec2Model ----
(***************************************************************************)
(* A model of lib/bridge.js (class PodiumBridge): the handler registry,    *)
(* outbound calls with their timers and promises, and the inbound          *)
(* dispatcher, as a state machine with one action per public operation or  *)
(* event-loop callback.                                                    *)
(***************************************************************************)
EXTENDS Integers, Sequences, FiniteSets, TLC

VARIABLES
    handlers,   \* #handlers: key -> array of registered functions (line 59)
    calls,      \* one record per invocation of call(): its promise, timer, closure
    wrappers,   \* number of newHandler closures created by once() so far
    fired,      \* per once() closure: how often its inner handler was invoked
    window,     \* the event listeners attached to the window object
    invoked,    \* listener invocations made by the last step, in order
    sent,       \* what the last step handed to the native transport
    thrown,     \* errors the last step threw to its caller / the host error channel
    last        \* the operation the last step performed, with its inputs

vars == <<handlers, calls, wrappers, fired, window, invoked, sent, thrown, last>>

----------------------------------------------------------------------------
(* Bounds of the model. *)

MaxListeners == 2   \* registered functions in the whole registry
MaxCalls == 2       \* invocations of call()
MaxDepth == 1       \* nesting of dispatches started from inside a handler
MaxOnce == 1        \* invocations of once() by the user

----------------------------------------------------------------------------
(* JavaScript values: a type tag (what typeof answers) and a rendering     *)
(* (what a template literal or String() gives).  Functions also carry      *)
(* their identity: w is the once() closure number, c the call whose done   *)
(* it is, m the method captured by the once() closure.                     *)

V(ty, v) == [ty |-> ty, v |-> v, w |-> 0, c |-> 0, m |-> ""]
Str(s) == V("string", s)
Num(s) == V("number", s)
Obj(s) == V("object", s)
Undef == V("undefined", "undefined")
NullV == V("object", "null")
Fn(h) == V("function", h)

TypeOf(x) == x.ty
ToStr(x) == x.v

Truthy(x) ==
    ~ \/ x.ty = "undefined"
      \/ x = NullV
      \/ (x.ty = "string" /\ x.v = "")
      \/ (x.ty = "number" /\ x.v \in {"0", "NaN"})

DEFAULT_TIMEOUT == Num("1000")

\* done of call c (lines 107-111), and the newHandler closure number w that
\* once(method, f) builds around f (lines 200-203).
DoneFn(c) == [Fn("done") EXCEPT !.c = c]
NewHandlerFn(w, method, f) == [f EXCEPT !.w = w, !.m = method]
InnerFn(f) == [f EXCEPT !.w = 0, !.m = ""]

\* An RPC envelope; a member that is absent is Undef.
Envelope(jsonrpc, method, id, result, error, errors) ==
    [jsonrpc |-> jsonrpc, method |-> method, id |-> id,
     result |-> result, error |-> error, errors |-> errors]

InternalKey(id) == "_internal:" \o ToStr(id)

----------------------------------------------------------------------------
(* The part of the state an operation works on while it runs.  Arrays are  *)
(* objects: ref maps a key of #handlers to the array it holds, heap gives  *)
(* each array's elements.  push changes an array in place, filter makes a  *)
(* new one, and a for-of loop walks the array it started on.               *)

RECURSIVE SeqOf(_)
SeqOf(S) ==
    IF S = {} THEN <<>>
    ELSE LET x == CHOOSE y \in S : TRUE IN <<x>> \o SeqOf(S \ {x})

IndexOf(s, x) == CHOOSE i \in 1..Len(s) : s[i] = x

Lift(h, cs, fd) ==
    LET ks == SeqOf(DOMAIN h) IN
    [ref |-> [k \in DOMAIN h |-> IndexOf(ks, k)],
     heap |-> [i \in 1..Len(ks) |-> h[ks[i]]],
     calls |-> cs, fired |-> fd,
     invoked |-> <<>>, exc |-> "", reported |-> <<>>]

Flatten(st) == [k \in DOMAIN st.ref |-> st.heap[st.ref[k]]]

Throw(st, msg) == [st EXCEPT !.exc = msg]

SetArray(st, key, arr) ==
    [st EXCEPT !.heap = Append(@, arr),
               !.ref = (key :> (Len(st.heap) + 1)) @@ @]

GetArray(st, key) ==
    IF key \in DOMAIN st.ref THEN st.heap[st.ref[key]] ELSE <<>>

----------------------------------------------------------------------------
(* The handler registry: on, off, once (lines 161-206). *)

on(st, method, eventHandler) ==
    IF TypeOf(method) # "string" /\ TypeOf(method) # "number"
    THEN Throw(st, "Request ID must be a string or number")
    ELSE IF TypeOf(eventHandler) # "function"
    THEN Throw(st, "Event handler must be a function")
    ELSE LET key == ToStr(method) IN
         IF key \in DOMAIN st.ref
         THEN [st EXCEPT !.heap[st.ref[key]] = Append(@, eventHandler)]
         ELSE SetArray(st, key, <<eventHandler>>)

\* An off that compares identities only, also for an absent eventHandler.
offIdentityOnly(st, method, eventHandler) ==
    IF TypeOf(method) # "string"
    THEN Throw(st, "method must be a string")
    ELSE LET key == ToStr(method)
             Keep(fn) == fn # eventHandler
         IN  SetArray(st, key, SelectSeq(GetArray(st, key), Keep))

off(st, method, eventHandler) ==
    IF TypeOf(method) # "string"
    THEN Throw(st, "method must be a string")
    ELSE LET key == ToStr(method)
             Keep(fn) == Truthy(eventHandler) /\ fn # eventHandler
         IN  SetArray(st, key, SelectSeq(GetArray(st, key), Keep))

\* A once that checks its arguments and registers nothing.
onceUnregistered(st, method, handler, w) ==
    IF TypeOf(method) # "string"
    THEN Throw(st, "method must be a string")
    ELSE IF TypeOf(handler) # "function"
    THEN Throw(st, "Handler must be of type function")
    ELSE st

\* w is the number of the newHandler closure this invocation creates.
once(st, method, handler, w) ==
    IF TypeOf(method) # "string"
    THEN Throw(st, "method must be a string")
    ELSE IF TypeOf(handler) # "function"
    THEN Throw(st, "Handler must be of type function")
    ELSE on(st, method, NewHandlerFn(w, ToStr(method), handler))

\* destroy, lines 294-296: every key of #handlers gets a new empty array.
RECURSIVE ClearTopics(_, _)
ClearTopics(st, topics) ==
    IF topics = <<>> THEN st
    ELSE ClearTopics(SetArray(st, Head(topics), <<>>), Tail(topics))

----------------------------------------------------------------------------
(* The promise of a call and the two closures that settle it               *)
(* (lines 92, 102-111).                                                    *)

\* An Error constructor that loses the kind of error.
ErrorUntyped(name, message) == [name |-> "Error", message |-> message]

Error(name, message) == [name |-> name, message |-> message]

JsonStringify(x) == IF x.ty = "string" THEN "\"" \o x.v \o "\"" ELSE x.v

\* resolve/reject of a Promise: only the first settles it.
Settle(call, outcome, value) ==
    IF call.state = "pending"
    THEN [call EXCEPT !.state = outcome, !.value = value]
    ELSE call

TimeoutMessage(request, timeout) ==
    ToStr(request.method) \o " timed out after " \o ToStr(timeout) \o "ms"

\* A timer callback that marks the call timed out and forgets to reject.
TimerCallbackSilent(call) == [call EXCEPT !.timedout = TRUE, !.timer = "fired"]

\* The setTimeout callback of call c (lines 103-106).
TimerCallback(call) ==
    Settle([call EXCEPT !.timedout = TRUE, !.timer = "fired"],
           "rejected",
           Error("Error", TimeoutMessage(call.request, call.timeout)))

ClearTimeout(call) ==
    IF call.timer = "armed" THEN [call EXCEPT !.timer = "cleared"] ELSE call

\* A done that leaves the timer armed.
doneKeepsTimer(call, args) ==
    IF Truthy(args.errors)
    THEN Settle(call, "rejected", Error("Error", JsonStringify(args.errors)))
    ELSE IF ~call.timedout
    THEN Settle(call, "resolved", args)
    ELSE call

\* done (lines 107-111).
done(call, args) ==
    LET c1 == ClearTimeout(call) IN
    IF Truthy(args.errors)
    THEN Settle(c1, "rejected", Error("Error", JsonStringify(args.errors)))
    ELSE IF ~c1.timedout
    THEN Settle(c1, "resolved", args)
    ELSE c1

----------------------------------------------------------------------------
(* The inbound dispatcher (lines 240-291) and the functions it invokes.    *)
(* User handlers are the callbacks given to on/once; what each does when   *)
(* invoked is fixed by its name: h1 and h2 return, hThrow throws, hRe       *)
(* dispatches the envelope it got once more, hOff unregisters h2 from the   *)
(* envelope's method and hOn registers h1 for it.                           *)

IsObject(message) == "ty" \notin DOMAIN message \/ message.ty = "object"

RECURSIVE receiveMessage(_, _, _)
RECURSIVE receiveRequest(_, _, _)
RECURSIVE Loop(_, _, _, _, _)
RECURSIVE Invoke(_, _, _, _)

\* window.dispatchEvent(new CustomEvent('rpcbridge', {detail})): an error the
\* listener throws is reported to the host, not rethrown to the dispatcher.
DispatchEvent(st, detail, depth) ==
    LET r == receiveMessage(st, detail, depth) IN
    IF r.exc # ""
    THEN [r EXCEPT !.reported = Append(@, r.exc), !.exc = ""]
    ELSE r

UserHandler(st, h, args, depth) ==
    CASE h = "hThrow" -> Throw(st, "handler failed")
      [] h = "hRe" -> IF depth < MaxDepth
                       THEN DispatchEvent(st, args, depth + 1)
                       ELSE st
      [] h = "hOff" -> off(st, args.method, Fn("h2"))
      [] h = "hOn" -> on(st, args.method, Fn("h1"))
      [] OTHER -> st

\* newHandler (lines 200-203): deregister, then call the inner handler.
newHandler(st, fn, args, depth) ==
    LET s1 == off(st, Str(fn.m), fn) IN
    IF s1.exc # "" THEN s1
    ELSE Invoke([s1 EXCEPT !.fired[fn.w] = @ + 1], InnerFn(fn), args, depth)

Invoke(st, fn, args, depth) ==
    IF fn.w > 0 THEN newHandler(st, fn, args, depth)
    ELSE IF fn.c > 0 THEN [st EXCEPT !.calls[fn.c] = done(@, args)]
    ELSE UserHandler(st, fn.v, args, depth)

\* for (const listener of listeners) listener(message), over array a of the
\* heap (0: the fresh [] of `|| []`), from index i.
Loop(st, a, i, message, depth) ==
    IF st.exc # "" \/ a = 0 \/ i > Len(st.heap[a]) THEN st
    ELSE LET listener == st.heap[a][i]
             s1 == [st EXCEPT !.invoked =
                        Append(@, [fn |-> listener, arg |-> message, depth |-> depth])]
         IN  Loop(Invoke(s1, listener, message, depth), a, i + 1, message, depth)

Listeners(st, key) == IF key \in DOMAIN st.ref THEN st.ref[key] ELSE 0

\* A #receiveRequest that dispatches requests that carry an id as well.
receiveRequestAnyId(st, message, depth) ==
    Loop(st, Listeners(st, ToStr(message.method)), 1, message, depth)

receiveRequest(st, message, depth) ==
    IF Truthy(message.id)
    THEN Throw(st, "Native requests must be notifications")
    ELSE Loop(st, Listeners(st, ToStr(message.method)), 1, message, depth)

receiveMessage(st, message, depth) ==
    IF ~IsObject(message)
    THEN Throw(st, "message must be an object")
    ELSE IF message = NullV
    THEN Throw(st, "TypeError: cannot read properties of null")
    ELSE IF TypeOf(message.jsonrpc) # "string" \/ message.jsonrpc # Str("2.0")
    THEN Throw(st, "JSON-RPC version " \o ToStr(message.jsonrpc) \o " is unsupported")
    ELSE IF TypeOf(message.method) = "string"
    THEN receiveRequest(st, message, depth)
    ELSE IF Truthy(message.error) /\ message.id = NullV
    THEN Throw(st, "The native web view got an invalid request")
    ELSE Loop(st, Listeners(st, InternalKey(message.id)), 1, message, depth)

----------------------------------------------------------------------------
(* The outbound side: uid, #sendMessage (lines 1-9, 213-232). *)

\* JSON.stringify of an envelope leaves out the members that are undefined.
Stringify(message) ==
    [f \in {g \in DOMAIN message : message[g] # Undef} |-> message[f]]

\* platform is what lines 222 and 226 detect on window; fails says that the
\* native handler throws.  The result: the error thrown, the message as
\* #sendMessage leaves it, and what was handed to which native channel
\* ("none": not in a hybrid setting, the no-op of line 230).
\* A #sendMessage that forwards the message as given: no jsonrpc default.
sendMessageAsGiven(message, platform, fails) ==
    IF ~IsObject(message)
    THEN [exc |-> "message must be an object", message |-> message, sent |-> <<>>]
    ELSE [exc |-> IF fails /\ platform # "none" THEN "native bridge failed" ELSE "",
          message |-> message,
          sent |-> <<[channel |-> platform, payload |-> message]>>]

sendMessage(message, platform, fails) ==
    IF ~IsObject(message)
    THEN [exc |-> "message must be an object", message |-> message, sent |-> <<>>]
    ELSE LET m1 == IF ~Truthy(message.jsonrpc)
                   THEN [message EXCEPT !.jsonrpc = Str("2.0")]
                   ELSE message
             out == CASE platform = "ios" ->
                           <<[channel |-> "nativebridgeiOS", payload |-> m1]>>
                      [] platform = "android" ->
                           <<[channel |-> "NativeBridgeAndroid", payload |-> Stringify(m1)]>>
                      [] OTHER -> <<[channel |-> "none", payload |-> m1]>>
         IN  IF fails /\ platform # "none"
             THEN [exc |-> "native bridge failed", message |-> m1, sent |-> out]
             ELSE [exc |-> "", message |-> m1, sent |-> out]

----------------------------------------------------------------------------
(* Inputs of the operations. *)

Methods == {"m", "n"}
Ids == {"a", "b"}
UserHandlers == {"h1", "h2", "hThrow", "hRe"}
ReentrantHandlers == {"h1", "h2", "hOff", "hOn"}
Platforms == {"ios", "android", "none"}

\* (method, eventHandler) arguments of on, off and once.
Arg(method, h) == [method |-> method, h |-> h]
OnArgs ==
    {Arg(Str("m"), Fn(h)) : h \in UserHandlers}
    \cup {Arg(Str("n"), Fn("h1")), Arg(Undef, Fn("h1")), Arg(Str("m"), Undef)}
OffArgs ==
    {Arg(Str("m"), h) : h \in {Fn("h1"), Fn("h2"), Undef}}
    \cup {Arg(Str("n"), Fn("h1")), Arg(Undef, Fn("h1"))}
OnceArgs ==
    {Arg(Str("m"), Fn("h1")), Arg(Str("m"), Undef), Arg(Undef, Fn("h1"))}

\* What the host page offers #sendMessage: the platform detected, and whether
\* the native handler throws.
Transport(platform, fails) == [platform |-> platform, fails |-> fails]
Transports ==
    {Transport(p, FALSE) : p \in Platforms}
    \cup {Transport(p, TRUE) : p \in Platforms \ {"none"}}

\* Arguments of call: request, timeout, what uid() returns where it is asked,
\* and the transport where the call gets as far as sending.
CallArg(method, id, timeout, generated, transport) ==
    [request |-> Envelope(Undef, method, id, Undef, Undef, Undef),
     timeout |-> timeout, generated |-> generated, transport |-> transport]
CallArgs ==
    {CallArg(Str("x"), Str("a"), Num("50"), Undef, t) : t \in Transports}
    \cup {CallArg(Str("x"), Undef, Undef, Str("b"), Transport("none", FALSE))}
    \cup {CallArg(Str("x"), Undef, Str("50"), Undef, Transport("none", FALSE)),
          CallArg(Undef, Str("a"), Num("50"), Undef, Transport("none", FALSE))}

\* Arguments of notification, with the transport where it gets as far as
\* sending.
NotificationArg(jsonrpc, id, transport) ==
    [envelope |-> Envelope(jsonrpc, Str("y"), id, Undef, Undef, Undef),
     transport |-> transport]
NotificationArgs ==
    {NotificationArg(j, Undef, t) : j \in {Undef, Str("2.0")}, t \in Transports}
    \cup {NotificationArg(j, Str("z"), Transport("ios", FALSE)) : j \in {Undef, Str("2.0")}}

InboundRequests ==
    {Envelope(Str("2.0"), Str(m), Undef, Undef, Undef, Undef) : m \in Methods}
    \cup {Envelope(Str("2.0"), Str("m"), Str("a"), Undef, Undef, Undef),
          Envelope(Str("1.0"), Str("m"), Undef, Undef, Undef, Undef),
          Envelope(Undef, Str("m"), Undef, Undef, Undef, Undef)}
InboundResponses ==
    {Envelope(Str("2.0"), Undef, Str(i), Obj("R"), Undef, Undef) : i \in Ids}
    \cup {Envelope(Str("2.0"), Undef, Str("a"), Undef, Obj("E"), Undef),
          Envelope(Str("2.0"), Undef, Str("a"), Undef, Undef, Obj("EE"))}
\* Details #receiveMessage refuses before it looks for listeners.
InboundInvalid ==
    {Str("text"), Envelope(Str("2.0"), Undef, NullV, Undef, Obj("E"), Undef)}
\* A notification whose method is spelled like the correlation key of call a.
InternalNotification ==
    Envelope(Str("2.0"), Str(InternalKey(Str("a"))), Undef, Undef, Undef, Undef)
Inbound == InboundRequests \cup InboundResponses \cup InboundInvalid

----------------------------------------------------------------------------
(* The state machine. *)

Last(op, a, b, c) == [op |-> op, a |-> a, b |-> b, c |-> c]

RpcListener == [event |-> "rpcbridge", fn |-> "bound #receiveMessage"]

\* The constructor (lines 61-65) on a page, before any operation.
Init ==
    /\ handlers = <<>>
    /\ calls = <<>>
    /\ wrappers = 0
    /\ fired = <<>>
    /\ window = {RpcListener}
    /\ invoked = <<>>
    /\ sent = <<>>
    /\ thrown = <<>>
    /\ last = Last("new", Undef, Undef, 0)

RECURSIVE Sum(_, _)
Sum(f, S) ==
    IF S = {} THEN 0
    ELSE LET x == CHOOSE y \in S : TRUE IN f[x] + Sum(f, S \ {x})

\* Registered functions that are not the listener of a call.
UserCount(h) ==
    Sum([k \in DOMAIN h |-> Len(SelectSeq(h[k], LAMBDA fn : fn.c = 0))], DOMAIN h)

Errors(st) == IF st.exc # "" THEN Append(st.reported, st.exc) ELSE st.reported

\* What an operation on the registry leaves behind.
Commit(st, op) ==
    /\ handlers' = Flatten(st)
    /\ calls' = st.calls
    /\ fired' = st.fired
    /\ invoked' = st.invoked
    /\ thrown' = Errors(st)
    /\ last' = op

Now == Lift(handlers, calls, fired)

On(method, eventHandler) ==
    /\ UserCount(handlers) < MaxListeners
    /\ Commit(on(Now, method, eventHandler), Last("on", method, eventHandler, 0))
    /\ sent' = <<>>
    /\ UNCHANGED <<wrappers, window>>

Off(method, eventHandler) ==
    /\ Commit(off(Now, method, eventHandler), Last("off", method, eventHandler, 0))
    /\ sent' = <<>>
    /\ UNCHANGED <<wrappers, window>>

Once(method, handler) ==
    /\ UserCount(handlers) < MaxListeners
    /\ wrappers - Len(calls) < MaxOnce
    /\ LET w == wrappers + 1
           s0 == [Now EXCEPT !.fired = Append(@, 0)]
           s1 == once(s0, method, handler, w)
       IN  IF s1.exc # ""
           THEN /\ Commit([s1 EXCEPT !.fired = fired], Last("once", method, handler, 0))
                /\ wrappers' = wrappers
           ELSE /\ Commit(s1, Last("once", method, handler, w))
                /\ wrappers' = w
    /\ sent' = <<>>
    /\ UNCHANGED window

\* The response a native side that answers at once gives to an envelope.
Reply(message) ==
    Envelope(Str("2.0"), Undef, message.id, Obj("R"), Undef, Undef)

\* call (lines 91-120).  generated is what uid() returns if it is asked.
\* echo: the native handler, before it returns from postMessage/send,
\* dispatches the 'rpcbridge' event with its response to the envelope.
CallVia(request, timeoutArg, generated, platform, fails, echo) ==
    /\ Len(calls) < MaxCalls
    /\ LET c == Len(calls) + 1
           w == wrappers + 1
           timeout == IF timeoutArg = Undef THEN DEFAULT_TIMEOUT ELSE timeoutArg
           fresh == [request |-> request, timeout |-> timeout, state |-> "pending",
                     value |-> Undef, timer |-> "none", timedout |-> FALSE]
           TypeError(msg) == Settle(fresh, "rejected", Error("TypeError", msg))
           r1 == IF TypeOf(request.id) = "undefined"
                 THEN [request EXCEPT !.id = generated]
                 ELSE request
           armed == [fresh EXCEPT !.request = r1, !.timer = "armed"]
           s0 == [Now EXCEPT !.calls = Append(@, armed), !.fired = Append(@, 0)]
           s1 == once(s0, Str(InternalKey(r1.id)), DoneFn(c), w)
           snd == sendMessage(r1, platform, fails)
           s2 == [s1 EXCEPT !.calls[c].request = snd.message]
           answered == /\ echo /\ platform # "none" /\ ~fails
                       /\ \E l \in window : l.event = "rpcbridge"
           s3 == IF answered THEN DispatchEvent(s2, Reply(snd.message), 0) ELSE s2
       IN  IF TypeOf(timeout) # "number"
           THEN /\ calls' = Append(calls, TypeError("timeout must be a number"))
                /\ sent' = <<>>
                /\ invoked' = <<>>
                /\ thrown' = <<>>
                /\ UNCHANGED <<handlers, wrappers, fired>>
           ELSE IF TypeOf(request.method) # "string"
           THEN /\ calls' = Append(calls, TypeError("request.method must be a string"))
                /\ sent' = <<>>
                /\ invoked' = <<>>
                /\ thrown' = <<>>
                /\ UNCHANGED <<handlers, wrappers, fired>>
           ELSE IF s1.exc # ""
           THEN /\ calls' = [s1.calls EXCEPT ![c] = Settle(@, "rejected", Error("Error", s1.exc))]
                /\ sent' = <<>>
                /\ invoked' = <<>>
                /\ thrown' = <<>>
                /\ UNCHANGED <<handlers, wrappers, fired>>
           ELSE /\ handlers' = Flatten(s3)
                /\ fired' = s3.fired
                /\ wrappers' = w
                /\ sent' = snd.sent
                /\ invoked' = s3.invoked
                /\ thrown' = s3.reported
                /\ calls' = IF snd.exc # ""
                            THEN [s3.calls EXCEPT
                                    ![c] = Settle(@, "rejected", Error("Error", snd.exc))]
                            ELSE s3.calls
    /\ last' = Last(IF echo THEN "call+reply" ELSE "call", request, timeoutArg,
                    Len(calls) + 1)
    /\ UNCHANGED window

Call(request, timeoutArg, generated, platform, fails) ==
    CallVia(request, timeoutArg, generated, platform, fails, FALSE)

\* call on a page whose native side answers from within the send.
CallEcho(request, timeoutArg, generated, platform) ==
    CallVia(request, timeoutArg, generated, platform, FALSE, TRUE)

\* The timer of call c expires: the event loop runs its callback.
TimerFire(c) ==
    /\ c \in 1..Len(calls)
    /\ calls[c].timer = "armed"
    /\ calls' = [calls EXCEPT ![c] = TimerCallback(@)]
    /\ invoked' = <<>>
    /\ sent' = <<>>
    /\ thrown' = <<>>
    /\ last' = Last("timer", Undef, Undef, c)
    /\ UNCHANGED <<handlers, wrappers, fired, window>>

\* notification (lines 146-153).
Notification(notification, platform, fails) ==
    /\ LET snd == sendMessage(notification, platform, fails) IN
       IF TypeOf(notification.id) # "undefined"
       THEN /\ thrown' = <<"Notifications cannot have an id. Use call for requests with an ID.">>
            /\ sent' = <<>>
       ELSE /\ thrown' = IF snd.exc # "" THEN <<snd.exc>> ELSE <<>>
            /\ sent' = snd.sent
    /\ invoked' = <<>>
    /\ last' = Last("notification", notification, Undef, 0)
    /\ UNCHANGED <<handlers, calls, wrappers, fired, window>>

\* The window delivers an 'rpcbridge' event to the listener the constructor
\* attached (line 63): #receiveMessage runs on its detail.
Receive(detail) ==
    /\ \E l \in window : l.event = "rpcbridge"
    /\ LET st == receiveMessage(Now, detail, 0) IN
       /\ UserCount(Flatten(st)) <= MaxListeners
       /\ Commit(st, Last("receive", detail, Undef, 0))
    /\ sent' = <<>>
    /\ UNCHANGED <<wrappers, window>>

\* A destroy that also cancels the timers of the calls in flight.
DestroyCancelling ==
    /\ handlers' = Flatten(ClearTopics(Now, SeqOf(DOMAIN handlers)))
    /\ calls' = [c \in 1..Len(calls) |-> ClearTimeout(calls[c])]
    /\ invoked' = <<>>
    /\ thrown' = <<>>
    /\ sent' = <<>>
    /\ last' = Last("destroy", Undef, Undef, 0)
    /\ UNCHANGED <<wrappers, fired, window>>

\* destroy (lines 293-300).
Destroy ==
    /\ Commit(ClearTopics(Now, SeqOf(DOMAIN handlers)), Last("destroy", Undef, Undef, 0))
    /\ window' = window \ {[event |-> "nativebridge", fn |-> "#receiveMessage"]}
    /\ sent' = <<>>
    /\ UNCHANGED wrappers

\* The publish/subscribe side of the bridge.
RegistryNext ==
    \/ \E a \in OnArgs : On(a.method, a.h)
    \/ \E a \in OffArgs : Off(a.method, a.h)
    \/ \E a \in OnceArgs : Once(a.method, a.h)
    \/ \E n \in NotificationArgs :
          Notification(n.envelope, n.transport.platform, n.transport.fails)
    \/ \E detail \in InboundRequests \cup InboundInvalid : Receive(detail)
    \/ Destroy

\* The call/response side, with the registry operations that reach a call's
\* correlation key interleaved (once() is what call itself registers with);
\* the user registers one handler of its own under such a key.
CallNext ==
    \/ \E a \in CallArgs :
          Call(a.request, a.timeout, a.generated, a.transport.platform, a.transport.fails)
    \/ \E c \in 1..MaxCalls : TimerFire(c)
    \/ \E detail \in InboundResponses : Receive(detail)
    \/ /\ UserCount(handlers) = 0
       /\ On(Str(InternalKey(Str("a"))), Fn("hThrow"))
    \/ Off(Str(InternalKey(Str("a"))), Undef)
    \/ Destroy

\* Handlers that change the registry of the method they are dispatched for.
ReentrantNext ==
    \/ \E h \in ReentrantHandlers : On(Str("m"), Fn(h))
    \/ \E h \in {"h1", "h2"} : Off(Str("m"), Fn(h))
    \/ Once(Str("m"), Fn("h1"))
    \/ Receive(Envelope(Str("2.0"), Str("m"), Undef, Undef, Undef, Undef))
    \/ Destroy

\* Inbound envelopes of every shape against pending calls and a handler.
ProtocolCalls ==
    {CallArg(Str("x"), Str("a"), Num("50"), Undef, Transport("none", FALSE)),
     CallArg(Str("x"), Undef, Undef, Str("b"), Transport("ios", FALSE))}
ProtocolNext ==
    \/ \E a \in ProtocolCalls :
          Call(a.request, a.timeout, a.generated, a.transport.platform, a.transport.fails)
    \/ \E c \in 1..MaxCalls : TimerFire(c)
    \/ /\ UserCount(handlers) = 0
       /\ \E key \in {"m", InternalKey(Str("a"))} : On(Str(key), Fn("h1"))
    \/ \E detail \in Inbound \cup {InternalNotification} : Receive(detail)

\* Calls on a page whose native side answers synchronously, next to calls
\* that are answered later or never.
EchoCalls ==
    {CallArg(Str("x"), Str("a"), Num("50"), Undef, Transport("ios", FALSE)),
     CallArg(Str("x"), Undef, Undef, Str("b"), Transport("android", FALSE)),
     CallArg(Str("x"), Undef, Undef, Str("b"), Transport("none", FALSE))}
EchoNext ==
    \/ \E a \in EchoCalls :
          CallEcho(a.request, a.timeout, a.generated, a.transport.platform)
    \/ Call(Envelope(Undef, Str("x"), Str("a"), Undef, Undef, Undef), Num("50"),
            Undef, "ios", FALSE)
    \/ \E c \in 1..MaxCalls : TimerFire(c)
    \/ \E i \in Ids :
          Receive(Envelope(Str("2.0"), Undef, Str(i), Obj("R"), Undef, Undef))

Next == RegistryNext \/ CallNext \/ ReentrantNext \/ ProtocolNext \/ EchoNext

Spec == Init /\ [][Next]_vars
RegistrySpec == Init /\ [][RegistryNext]_vars
CallSpec == Init /\ [][CallNext]_vars
ReentrantSpec == Init /\ [][ReentrantNext]_vars
ProtocolSpec == Init /\ [][ProtocolNext]_vars
EchoSpec == Init /\ [][EchoNext]_vars

\* The event loop runs the callback of every armed timer in the end.
FairCallSpec == CallSpec /\ \A c \in 1..MaxCalls : WF_vars(TimerFire(c))

----------------------------------------------------------------------------
(* Vocabulary of the properties. *)

ListOf(h, key) == IF key \in DOMAIN h THEN h[key] ELSE <<>>
Range(seq) == {seq[i] : i \in 1..Len(seq)}
Registered(h) == UNION {Range(h[k]) : k \in DOMAIN h}
CallKey(c) == InternalKey(calls[c].request.id)
Settled(call) == call.state \in {"resolved", "rejected"}

\* The once() closure around done of call c is in the registry.
HasListener(h, c) == \E fn \in Registered(h) : fn.c = c
OnlyCallListeners(list) == \A fn \in Range(list) : fn.c > 0

IsResponse(d) == IsObject(d) /\ d # NullV /\ TypeOf(d.method) # "string"
IsResult(d) ==
    IsResponse(d) /\ Truthy(d.result) /\ ~Truthy(d.error) /\ ~Truthy(d.errors)
TimeoutError(call) ==
    Error("Error", ToStr(call.request.method) \o " timed out after "
                     \o ToStr(call.timeout) \o "ms")

----------------------------------------------------------------------------
\* C1: every invocation of call returns an awaitable that is settled exactly
\* once: once resolved or rejected it keeps that outcome and value under every
\* later step, and (armed timers firing in the end) from some point on every
\* call that was made is settled.
C1_SettledExactlyOnce ==
    /\ [][\A c \in 1..Len(calls) :
            Settled(calls[c]) =>
                /\ calls'[c].state = calls[c].state
                /\ calls'[c].value = calls[c].value]_vars
    /\ <>[](\A c \in 1..Len(calls) : Settled(calls[c]))

\* A call whose listener is gone from the registry (destroy, off) was settled
\* by its timer; another call was resolved by a response.
C1_Witness ==
    \E c \in 1..Len(calls) :
        /\ last = Last("timer", Undef, Undef, c)
        /\ calls[c].state = "rejected"
        /\ ~HasListener(handlers, c)
        /\ \E d \in 1..Len(calls) : calls[d].state = "resolved"

----------------------------------------------------------------------------
\* Listener invocations of the step just taken that ran done of call c.
DoneRuns(log, c) == {i \in 1..Len(log) : log[i].fn.c = c}

\* C2: a response that reaches the listener of a pending call before its
\* timer fires and carries an `error` member rejects the call with an error
\* wrapping that member; only a response without `error` resolves it.
C2_ErrorResponseRejects ==
    [][\A c \in 1..Len(calls) :
         \A i \in DoneRuns(invoked', c) :
            (/\ calls[c].state = "pending"
             /\ calls[c].timer = "armed"
             /\ Truthy(invoked'[i].arg.error))
            => /\ calls'[c].state = "rejected"
               /\ calls'[c].value = Error("Error", JsonStringify(invoked'[i].arg.error))]_vars

----------------------------------------------------------------------------
\* C3: the response/timeout race of a pending call goes to the event that is
\* processed first.  A result response for the call's identifier, processed
\* while the timer is armed and the call's listener is registered (with only
\* call listeners under its key), resolves the call with that response and
\* cancels the timer, and a cancelled timer never fires.  A timer that fires
\* on a pending call rejects it with the timeout error naming the request's
\* method and the timeout, and a response processed after that raises no
\* error and leaves the outcome as it is.
C3_RaceFirstEventWins ==
    [][\A c \in 1..Len(calls) :
         LET call == calls[c]
             list == ListOf(handlers, CallKey(c))
             matching == /\ last'.op = "receive"
                         /\ IsResponse(last'.a)
                         /\ InternalKey(last'.a.id) = CallKey(c)
                         /\ HasListener(handlers, c)
                         /\ OnlyCallListeners(list)
         IN  /\ (matching /\ IsResult(last'.a)
                   /\ call.state = "pending" /\ call.timer = "armed")
                => /\ calls'[c].state = "resolved"
                   /\ calls'[c].value = last'.a
                   /\ calls'[c].timer = "cleared"
             /\ call.timer = "cleared" => calls'[c].timer = "cleared"
             /\ call.state = "resolved" => calls'[c].state = "resolved"
             /\ (last' = Last("timer", Undef, Undef, c) /\ call.state = "pending")
                => /\ calls'[c].state = "rejected"
                   /\ calls'[c].value = TimeoutError(call)
             /\ (matching /\ call.timedout)
                => /\ thrown' = <<>>
                   /\ calls'[c].state = call.state
                   /\ calls'[c].value = call.value]_vars

\* Both halves of the race happened: one call was resolved by a response that
\* beat its timer, another was rejected by its timer and then got a response
\* that its listener ran on without changing the outcome.
C3_Witness ==
    \E c, d \in 1..Len(calls) :
        /\ calls[c].state = "resolved" /\ calls[c].timer = "cleared"
        /\ IsResult(calls[c].value)
        /\ calls[d].state = "rejected" /\ calls[d].value = TimeoutError(calls[d])
        /\ last.op = "receive" /\ IsResult(last.a)
        /\ DoneRuns(invoked, d) # {}

----------------------------------------------------------------------------
\* C4: once the awaitable of a call has settled through a response (timer
\* cancelled) or through its timeout (timer fired), the registry holds no
\* listener of that call.
C4_ListenerRemovedOnCompletion ==
    \A c \in 1..Len(calls) :
        (Settled(calls[c]) /\ calls[c].timer \in {"cleared", "fired"})
            => ~HasListener(handlers, c)

----------------------------------------------------------------------------
\* C5: no internal key ever holds more than one call listener.
C5_OnePendingCallPerId ==
    \A key \in DOMAIN handlers :
        Cardinality({fn \in Range(handlers[key]) : fn.c > 0}) <= 1

----------------------------------------------------------------------------
(* Dispatch of an inbound notification. *)

IsNotification(d) ==
    /\ IsObject(d) /\ d # NullV
    /\ d.jsonrpc = Str("2.0")
    /\ TypeOf(d.method) = "string"
    /\ ~Truthy(d.id)
Depth0(log) == SelectSeq(log, LAMBDA e : e.depth = 0)
IsDistinct(seq) == \A i, j \in 1..Len(seq) : seq[i] = seq[j] => i = j
Fns(log) == {log[i].fn : i \in 1..Len(log)}

\* C6: when a handler throws during the dispatch of a notification, every
\* handler that was registered for the method is still invoked in it.
C6_ThrowDoesNotAbortDispatch ==
    [][(/\ last'.op = "receive"
        /\ IsNotification(last'.a)
        /\ "handler failed" \in Range(thrown'))
       => Range(ListOf(handlers, ToStr(last'.a.method))) \subseteq Fns(invoked')]_vars

\* C7: a notification invokes the K distinct handlers registered for its
\* method, all of them, in registration order, each with that envelope; no
\* function that is not registered for the method runs, and with no handler
\* nothing happens.
C7_AllHandlersInOrder ==
    [][(last'.op = "receive" /\ IsNotification(last'.a)) =>
         LET key == ToStr(last'.a.method)
             L == ListOf(handlers, key)
             D == Depth0(invoked')
         IN  IsDistinct(L) =>
             /\ Len(D) >= Len(L)
             /\ \A i \in 1..Len(L) : D[i].fn = L[i] /\ D[i].arg = last'.a
             /\ Fns(invoked') \subseteq Range(L) \cup Range(ListOf(handlers', key))
             /\ L = <<>> => /\ invoked' = <<>>
                            /\ thrown' = <<>>
                            /\ \A k \in DOMAIN handlers : handlers'[k] = handlers[k]]_vars

----------------------------------------------------------------------------
(* off. *)

OffStep(key, h) == last' = Last("off", Str(key), h, 0)
OthersUntouched(key) ==
    \A k \in (DOMAIN handlers \cup DOMAIN handlers') \ {key} :
        ListOf(handlers', k) = ListOf(handlers, k)

----------------------------------------------------------------------------
\* C9: the handler given to once() is invoked at most once in total, and once
\* it has been invoked its closure is registered nowhere.
C9_OnceFiresAtMostOnce ==
    \A w \in 1..Len(fired) :
        /\ fired[w] <= 1
        /\ fired[w] >= 1 => ~ \E fn \in Registered(handlers) : fn.w = w

----------------------------------------------------------------------------
NoId(payload) == "id" \notin DOMAIN payload \/ payload.id = Undef

\* C10: notification with an id throws before anything is handed to the
\* transport; without an id exactly one envelope is handed over, with no id
\* and with jsonrpc "2.0" where the caller gave none.  Either way the
\* registry, the calls and their timers are as before.
C10_Notification ==
    [][last'.op = "notification" =>
         LET n == last'.a IN
         /\ handlers' = handlers /\ calls' = calls
         /\ fired' = fired /\ wrappers' = wrappers
         /\ IF TypeOf(n.id) # "undefined"
            THEN thrown' # <<>> /\ sent' = <<>>
            ELSE /\ Len(sent') = 1
                 /\ NoId(sent'[1].payload)
                 /\ sent'[1].payload.method = n.method
                 /\ sent'[1].payload.jsonrpc =
                        (IF n.jsonrpc = Undef THEN Str("2.0") ELSE n.jsonrpc)]_vars

\* A notification without id and without jsonrpc went out, serialised, with
\* jsonrpc "2.0".
C10_Witness ==
    /\ last.op = "notification"
    /\ last.a.id = Undef /\ last.a.jsonrpc = Undef
    /\ thrown = <<>>
    /\ Len(sent) = 1
    /\ sent[1].channel = "NativeBridgeAndroid"
    /\ sent[1].payload.jsonrpc = Str("2.0")

----------------------------------------------------------------------------
\* The envelopes the dispatcher refuses: jsonrpc missing or not "2.0", a
\* request (string method) with a non-empty id, an error response (no string
\* method) whose id is null.
IsViolation(d) ==
    /\ IsObject(d) /\ d # NullV
    /\ \/ d.jsonrpc # Str("2.0")
       \/ TypeOf(d.method) = "string" /\ Truthy(d.id)
       \/ TypeOf(d.method) # "string" /\ Truthy(d.error) /\ d.id = NullV

\* C11: receiving an envelope that violates the protocol fails for that
\* envelope alone: an error is raised, no listener is invoked, no call is
\* settled or otherwise touched, and registry and window listener are as
\* before, so that later envelopes are processed as if it had not arrived.
C11_ViolationFailsAlone ==
    [][(last'.op = "receive" /\ IsViolation(last'.a))
       => /\ thrown' # <<>>
          /\ invoked' = <<>>
          /\ calls' = calls
          /\ handlers' = handlers
          /\ fired' = fired
          /\ window' = window]_vars

\* A request for "m" that carries an id was refused while a handler was
\* registered for "m" and a call was pending.
C11_Witness ==
    /\ last.op = "receive" /\ IsViolation(last.a)
    /\ TypeOf(last.a.method) = "string" /\ Truthy(last.a.id)
    /\ ListOf(handlers, ToStr(last.a.method)) # <<>>
    /\ \E c \in 1..Len(calls) : calls[c].state = "pending"
    /\ thrown # <<>>

----------------------------------------------------------------------------
\* C12: when destroy returns, every topic is still a key of the registry with
\* an empty list, and no listener for the inbound event is left on the
\* window, so that no envelope delivered afterwards reaches a handler.
C12_DestroyDetaches ==
    [][last'.op = "destroy"
       => /\ \A k \in DOMAIN handlers : k \in DOMAIN handlers' /\ handlers'[k] = <<>>
          /\ ~ \E l \in window' : l.event = "rpcbridge"]_vars

----------------------------------------------------------------------------
InFlight(call) == call.state = "pending" /\ call.timer = "armed"

\* C13: destroy leaves a call in flight as it is, timer armed, and takes its
\* listener out of the registry for good; from then on no inbound envelope
\* touches the call, only its timer does, and that rejects it with the
\* timeout error; and (armed timers firing in the end) no call stays in
\* flight without its listener.
C13_DestroyOrphansCalls ==
    /\ [][\A c \in 1..Len(calls) :
            LET call == calls[c]
                orphan == InFlight(call) /\ ~HasListener(handlers, c)
            IN  /\ (last'.op = "destroy" /\ InFlight(call))
                   => /\ calls'[c] = call
                      /\ ~HasListener(handlers', c)
                /\ ~HasListener(handlers, c) => ~HasListener(handlers', c)
                /\ (orphan /\ last' # Last("timer", Undef, Undef, c))
                   => calls'[c] = call
                /\ (orphan /\ last' = Last("timer", Undef, Undef, c))
                   => /\ calls'[c].state = "rejected"
                      /\ calls'[c].value = TimeoutError(call)
                      /\ calls'[c].timer = "fired"]_vars
    /\ <>[](\A c \in 1..Len(calls) :
                ~(InFlight(calls[c]) /\ ~HasListener(handlers, c)))

\* destroy has just run on a call in flight: the call is pending with its
\* timer armed, its key is kept and its listener is gone.
C13_Witness ==
    /\ last.op = "destroy"
    /\ \E c \in 1..Len(calls) :
          /\ InFlight(calls[c])
          /\ CallKey(c) \in DOMAIN handlers
          /\ ~HasListener(handlers, c)

----------------------------------------------------------------------------
\* C14: call with a timeout that is not a number or a request.method that is
\* not a string throws nothing; the awaitable it returns is rejected with a
\* TypeError naming the offending argument, the request gets no id, no timer
\* is armed, the registry and the other calls are as before and nothing is
\* handed to the transport.
C14_InvalidCallRejects ==
    [][last'.op = "call" =>
         LET request == last'.a
             timeout == IF last'.b = Undef THEN DEFAULT_TIMEOUT ELSE last'.b
             c == last'.c
             badTimeout == TypeOf(timeout) # "number"
             badMethod == TypeOf(request.method) # "string"
         IN  (badTimeout \/ badMethod) =>
             /\ thrown' = <<>>
             /\ Len(calls') = Len(calls) + 1 /\ c = Len(calls')
             /\ calls'[c].state = "rejected"
             /\ calls'[c].value =
                    [name |-> "TypeError",
                     message |-> IF badTimeout THEN "timeout must be a number"
                                 ELSE "request.method must be a string"]
             /\ calls'[c].request = request
             /\ calls'[c].timer = "none"
             /\ \A d \in 1..Len(calls) : calls'[d] = calls[d]
             /\ handlers' = handlers
             /\ fired' = fired
             /\ sent' = <<>>]_vars

\* A call without id and with the timeout "50" (a string) was rejected, while
\* an earlier call was pending.
C14_Witness ==
    /\ last.op = "call" /\ TypeOf(last.b) = "string"
    /\ calls[last.c].state = "rejected"
    /\ calls[last.c].value.name = "TypeError"
    /\ calls[last.c].request.id = Undef
    /\ \E d \in 1..Len(calls) : InFlight(calls[d]) /\ HasListener(handlers, d)

----------------------------------------------------------------------------
\* A response the dispatcher accepts: version "2.0", no string method, and
\* not an error with a null id.
IsValidResponse(d) == IsResponse(d) /\ ~IsViolation(d)

\* C15: a response with id X leaves every call with another identifier as it
\* is, listener and timer included, invokes nothing but listeners of calls,
\* and with no call of identifier X pending it raises no error and leaves the
\* registry unchanged.
C15_ResponseTouchesOnlyItsCall ==
    [][(last'.op = "receive" /\ IsValidResponse(last'.a)) =>
         LET X == last'.a.id
             Mine(c) == calls[c].request.id = X
         IN  /\ \A c \in 1..Len(calls) :
                    ~Mine(c) => /\ calls'[c] = calls[c]
                                /\ HasListener(handlers', c) = HasListener(handlers, c)
             /\ \A fn \in Fns(invoked') : fn.c > 0
             /\ (~ \E c \in 1..Len(calls) : Mine(c) /\ calls[c].state = "pending")
                    => /\ thrown' = <<>>
                       /\ handlers' = handlers]_vars

----------------------------------------------------------------------------
\* C16: a valid call hands exactly one envelope to the transport, carrying a
\* defined id (the caller's if there is one, else the generated one, the one
\* the call is tracked under), a jsonrpc value and the method; the listener
\* is registered and the timer armed by then: a call that is not answered
\* returns pending with both in place, and a call the native side answers
\* from within the send is resolved with that answer and its timer cancelled.
C16_ListenerRegisteredBeforeSend ==
    [][last'.op \in {"call", "call+reply"} =>
         LET request == last'.a
             timeout == IF last'.b = Undef THEN DEFAULT_TIMEOUT ELSE last'.b
             c == last'.c
         IN  (TypeOf(timeout) = "number" /\ TypeOf(request.method) = "string") =>
             /\ Len(sent') = 1
             /\ "id" \in DOMAIN sent'[1].payload
             /\ sent'[1].payload.id # Undef
             /\ sent'[1].payload.id = calls'[c].request.id
             /\ request.id # Undef => sent'[1].payload.id = request.id
             /\ Truthy(sent'[1].payload.jsonrpc)
             /\ sent'[1].payload.method = request.method
             /\ (last'.op = "call" \/ sent'[1].channel = "none")
                    => /\ InFlight(calls'[c])
                       /\ HasListener(handlers', c)
             /\ (last'.op = "call+reply" /\ sent'[1].channel # "none")
                    => /\ calls'[c].state = "resolved"
                       /\ calls'[c].value = Reply(calls'[c].request)
                       /\ calls'[c].timer = "cleared"
                       /\ thrown' = <<>>]_vars

\* A call without id was sent, serialised, with the generated id, and the
\* answer given from within the send resolved it.
C16_Witness ==
    /\ last.op = "call+reply" /\ last.a.id = Undef
    /\ Len(sent) = 1 /\ sent[1].channel = "NativeBridgeAndroid"
    /\ sent[1].payload.id = Str("b")
    /\ calls[last.c].state = "resolved"
    /\ calls[last.c].value.id = Str("b")

----------------------------------------------------------------------------
IsRequest(d) == IsObject(d) /\ d # NullV /\ TypeOf(d.method) = "string"

\* C17: an inbound envelope with a string method, whatever the method, leaves
\* the state of every call as it is, and an inbound response invokes nothing
\* but listeners of calls.
C17_InternalKeysOnlyForResponses ==
    [][last'.op = "receive" =>
         /\ IsRequest(last'.a) =>
                \A c \in 1..Len(calls) : calls'[c].state = calls[c].state
         /\ IsValidResponse(last'.a) =>
                \A fn \in Fns(invoked') : fn.c > 0]_vars

----------------------------------------------------------------------------
\* C18: the dispatch of a notification invokes only functions that were
\* registered for its method when it began, and no more of them than were
\* registered then.
C18_DispatchKeepsToSnapshot ==
    [][(last'.op = "receive" /\ IsNotification(last'.a)) =>
         LET L == ListOf(handlers, ToStr(last'.a.method)) IN
         /\ Fns(invoked') \subseteq Range(L)
         /\ Len(invoked') <= Len(L)]_vars

----------------------------------------------------------------------------
\* C19: when off(topic, h) returns, h is no longer in topic's list; a
\* dispatch invokes no function that is in the list neither before nor after
\* it; and within one dispatch, once the handler that calls off(topic, h2)
\* has run, h2 is not invoked any more.
C19_OffStopsInvocation ==
    [][/\ \A key \in Methods, h \in {Fn("h1"), Fn("h2")} :
            OffStep(key, h) => h \notin Range(ListOf(handlers', key))
       /\ (last'.op = "receive" /\ IsNotification(last'.a)) =>
            LET key == ToStr(last'.a.method) IN
            /\ \A h \in {Fn("h1"), Fn("h2")} :
                  (h \notin Range(ListOf(handlers, key))
                           \cup Range(ListOf(handlers', key)))
                     => h \notin Fns(invoked')
            /\ \A i, j \in 1..Len(invoked') :
                  (i < j /\ invoked'[i].fn = Fn("hOff"))
                     => invoked'[j].fn # Fn("h2")]_vars

----------------------------------------------------------------------------
\* C20: a call whose hand-over to the transport throws returns rejected with
\* that failure, with no listener of it in the registry and no timer of it
\* armed.
C20_SendFailureLeavesNothing ==
    [][last'.op = "call" =>
         LET c == last'.c IN
         (Len(sent') = 1 /\ calls'[c].value = Error("Error", "native bridge failed"))
            => /\ calls'[c].state = "rejected"
               /\ ~HasListener(handlers', c)
               /\ calls'[c].timer # "armed"]_vars

====
